---- MODULE Spec2Model ----
(***************************************************************************)
(* Model of the ACPA agent pipeline: the tRPC trigger acpaRouter.          *)
(* analyzePolicy, AgentOrchestrator.runACPA, SupervisorAgent.execute with  *)
(* its three stage calls, DataIngestionAgent.execute with its four         *)
(* parallel source fetches, PolicyAnalysisAgent.execute with its          *)
(* refinement loop, and SynthesisAgent.execute with its four awaited       *)
(* capability calls.  Spec is one run from one entry point; FairSpec adds  *)
(* that awaited calls settle; SpecRepeat is the trigger called repeatedly  *)
(* and concurrently, as far as the execution ids and the ledger go.        *)
(*                                                                         *)
(* JavaScript values are records tagged with the result of typeof in the   *)
(* field "type"; an optional property that is undefined is a field that is *)
(* absent from the record.  Strings are sequences of one-character         *)
(* strings; an error message is the sequence of its pieces, so that a      *)
(* template literal is a concatenation and "" is the empty sequence.       *)
(*                                                                         *)
(* Every capability call (a stage call of the supervisor, a source fetch,  *)
(* a database insert) is an asynchronous boundary returning a promise: it  *)
(* may resolve with the built-in value, resolve with an unsuccessful       *)
(* output, or reject.  The code handles each of these settlements, and the *)
(* model draws the settlement from those three.  The analytic capability   *)
(* performAnalysis resolves with its built-in findings and a confidence    *)
(* that is the built-in one or a value below or at the threshold, resolves *)
(* without findings, or rejects.  Confidences are in hundredths.           *)
(***************************************************************************)
EXTENDS Integers, Sequences, FiniteSets, TLC

VARIABLES
    pc,                    \* position of the single run
    entry,                 \* which entry point the caller used
    input,                 \* the argument the caller passed
    db,                    \* TRUE when getDb() returned a handle
    sourceUp,              \* environment: does the source of each kind answer
    agentExecutions,       \* rows of table agent_executions (the ledger)
    policyAnalysisResults, \* rows of table policy_analysis_results
    invoked,               \* stage calls made by the supervisor, in order
    passed,                \* the data argument of each of those calls
    settled,               \* how each of those stage calls settled, in order
    ingestionOutput,       \* local of SupervisorAgent.execute
    analysisOutput,        \* local of SupervisorAgent.execute
    synthesisOutput,       \* local of SupervisorAgent.execute
    executionId,           \* local of SupervisorAgent.execute
    supResult,             \* what SupervisorAgent.execute returned
    response,              \* what AgentOrchestrator.runACPA returned
    caught,                \* error message caught by the trigger's catch
    reply,                 \* what the trigger gave its caller
    elapsed,               \* Date.now() - startTime of the run
    fetchState,            \* DataIngestionAgent: state of each source fetch
    firstRejected,         \* DataIngestionAgent: first fetch that rejected
    agentOut,              \* what DataIngestionAgent.execute returned
    active,                \* stage calls of the supervisor still awaited
    completed,             \* DataIngestionAgent: kinds in order of settlement
    loop,                  \* PolicyAnalysisAgent.execute: locals of the loop
    calls,                 \* results performAnalysis resolved with, in order
    delays,                \* refinement sleeps of the analysis loop so far
    analysisOut,           \* what PolicyAnalysisAgent.execute returned
    synth,                 \* SynthesisAgent.execute: locals of the try block
    ops,                   \* SynthesisAgent: capability calls and settlements
    synthOut,              \* what SynthesisAgent.execute returned
    clock,                 \* Date.now()
    runs,                  \* calls of the trigger, one record per call
    tasks                  \* concurrent calls of runACPA: the locals of each

vars == <<pc, entry, input, db, sourceUp, agentExecutions,
          policyAnalysisResults, invoked, passed, settled, ingestionOutput,
          analysisOutput, synthesisOutput, executionId, supResult, response,
          caught, reply, elapsed, fetchState, firstRejected, agentOut,
          active, completed, loop, calls, delays, analysisOut, synth, ops,
          synthOut, clock, runs, tasks>>

pipeVars == <<invoked, passed, settled, ingestionOutput, analysisOutput,
              synthesisOutput, executionId, supResult, active>>
dbVars == <<agentExecutions, policyAnalysisResults>>
ingestVars == <<fetchState, firstRejected, agentOut, completed>>
analysisVars == <<loop, calls, delays, analysisOut>>
synthVars == <<synth, ops, synthOut>>
repeatVars == <<clock, runs, tasks>>

----------------------------------------------------------------------------
(* Bounds *)

\* longest whitespace-only string a caller passes
MaxBlank == 1
\* number of distinct random suffixes of an execution id
MaxRnd == 2
MaxRuns == 2
MaxClock == 2

----------------------------------------------------------------------------
(* JavaScript values *)

Undefined == [type |-> "undefined"]
Null == [type |-> "object", isNull |-> TRUE]

IsNullish(v) == v.type = "undefined" \/ "isNull" \in DOMAIN v

Has(obj, name) == name \in DOMAIN obj

\* a property read: undefined when the object lacks the property
Get(obj, name) == IF Has(obj, name) THEN obj[name] ELSE Undefined

\* a property of an object literal: absent when the value read is undefined
Opt(obj, name, as) == IF Has(obj, name) THEN (as :> obj[name]) ELSE <<>>

\* a whitespace-only string of n blanks
Blank(n) == [i \in 1..n |-> " "]

Names == {<<"C", "A">>}
Strings == {Blank(n) : n \in 0..MaxBlank} \cup Names

RECURSIVE TrimStart(_)
TrimStart(s) == IF s # <<>> /\ Head(s) = " " THEN TrimStart(Tail(s)) ELSE s

RECURSIVE TrimEnd(_)
TrimEnd(s) ==
    IF s # <<>> /\ s[Len(s)] = " " THEN TrimEnd(SubSeq(s, 1, Len(s) - 1)) ELSE s

\* String.prototype.trim
Trim(s) == TrimEnd(TrimStart(s))

\* messages a failing capability reports; the first is the empty message
Causes == {<<>>, <<"timeout">>}

Stages == <<"Ingestion", "Analysis", "Synthesis">>

StagePrefix(stage) ==
    CASE stage = "Ingestion" -> "Ingestion failed: "
      [] stage = "Analysis" -> "Analysis failed: "
      [] stage = "Synthesis" -> "Synthesis failed: "

Settlements == {"ok", "unsuccessful", "reject"}

----------------------------------------------------------------------------
(* BaseAgent *)

validateInput(v) == ~ (IsNullish(v) \/ v.type # "object")

----------------------------------------------------------------------------
(* SupervisorAgent: the built-in stage outputs *)

IngestionDelay == 2500
AnalysisDelay == 3000
SynthesisDelay == 2000

NewsCountMock == 15
ScientificCountMock == 8

callIngestionAgent(in) ==
    [type |-> "object", success |-> TRUE,
     data |-> [type |-> "object",
               sources |-> <<[type |-> "news", count |-> NewsCountMock],
                             [type |-> "scientific",
                              count |-> ScientificCountMock]>>]
              @@ Opt(in, "region", "region"),
     executionTime |-> IngestionDelay]

callAnalysisAgent(in, ingestionData) ==
    [type |-> "object", success |-> TRUE,
     data |-> [type |-> "object",
               findings |-> [timelineYears |-> 10, riskFactors |-> 3],
               confidence |-> 82]
              @@ Opt(in, "policyType", "analysisType")
              @@ Opt(in, "region", "region"),
     executionTime |-> AnalysisDelay]

callSynthesisAgent(in, analysisData) ==
    [type |-> "object", success |-> TRUE,
     data |-> [type |-> "object",
               recommendations |-> <<[priority |-> "high"],
                                     [priority |-> "high"],
                                     [priority |-> "medium"]>>,
               executiveSummary |-> <<"Based on ">> \o
                   (IF Has(in, "region") THEN in.region ELSE <<"undefined">>)],
     executionTime |-> SynthesisDelay]

\* an output a stage resolves with when it did not succeed
Unsuccessful(cause) ==
    [type |-> "object", success |-> FALSE, error |-> cause]

\* the catch block of SupervisorAgent.execute
SupervisorCatch(message, time) ==
    [type |-> "object", success |-> FALSE, error |-> message,
     executionTime |-> time]

\* where a caller of SupervisorAgent.execute continues
AfterSupervisor == IF entry = "supervisor" THEN "done" ELSE "runACPA_return"

\* where a caller of AgentOrchestrator.runACPA continues
AfterOrchestrator == IF entry = "orchestrator" THEN "done" ELSE "router_store"

----------------------------------------------------------------------------
(* Initial state *)

SourceKinds == <<"news", "scientific", "policy", "api">>
KindSet == {SourceKinds[i] : i \in 1..Len(SourceKinds)}

Init ==
    /\ pc = "idle"
    /\ entry = "none"
    /\ input = Undefined
    /\ db = FALSE
    /\ sourceUp \in [KindSet -> BOOLEAN]
    /\ agentExecutions = <<>>
    /\ policyAnalysisResults = <<>>
    /\ invoked = <<>>
    /\ passed = <<>>
    /\ settled = <<>>
    /\ ingestionOutput = Undefined
    /\ analysisOutput = Undefined
    /\ synthesisOutput = Undefined
    /\ executionId = Undefined
    /\ supResult = Undefined
    /\ response = Undefined
    /\ caught = <<>>
    /\ reply = [kind |-> "none"]
    /\ elapsed = 0
    /\ fetchState = [k \in KindSet |-> "idle"]
    /\ firstRejected = [kind |-> "none"]
    /\ agentOut = Undefined
    /\ active = {}
    /\ completed = <<>>
    /\ loop = Undefined
    /\ calls = <<>>
    /\ delays = 0
    /\ analysisOut = Undefined
    /\ synth = Undefined
    /\ ops = <<>>
    /\ synthOut = Undefined
    /\ clock = 0
    /\ runs = <<>>
    /\ tasks = <<>>

----------------------------------------------------------------------------
(* acpaRouter.analyzePolicy: input schema and start of the mutation *)

\* z.string().min(1, ...)
zodStringMin1(s) == Len(s) >= 1

\* the z.object schema of analyzePolicy: the issues it raises
analyzePolicyInput(in) ==
    (IF zodStringMin1(in.region) THEN <<>> ELSE <<"Region is required">>)
    \o (IF zodStringMin1(in.policyType) THEN <<>>
        ELSE <<"Policy type is required">>)

\* a row of agent_executions logged by the trigger
ExecutionRow(status, in) ==
    [userId |-> 1, agentName |-> "SupervisorAgent", status |-> status,
     input |-> in]

\* the caller invokes the trigger; the schema is parsed before the mutation
AnalyzePolicy(region, policyType, handle) ==
    /\ pc = "idle"
    /\ entry' = "router"
    /\ input' = [type |-> "object", region |-> region,
                 policyType |-> policyType]
    /\ IF analyzePolicyInput(input') = <<>>
       THEN /\ db' = handle
            /\ pc' = "router_log"
            /\ reply' = reply
       ELSE /\ db' = db
            /\ pc' = "done"
            /\ reply' = [kind |-> "rejected",
                         message |-> analyzePolicyInput(input')]
    /\ elapsed' = 0
    /\ UNCHANGED <<sourceUp, synthVars, repeatVars, analysisVars, dbVars,
                   pipeVars, response, caught, ingestVars>>

\* "Log execution start": the insert of the running row
RouterLogStart(ok) ==
    /\ pc = "router_log"
    /\ IF db /\ ok
       THEN /\ agentExecutions' =
                Append(agentExecutions, ExecutionRow("running", input))
            /\ pc' = "runACPA"
            /\ caught' = caught
       ELSE IF db
       THEN /\ agentExecutions' = agentExecutions
            /\ pc' = "router_catch"
            /\ caught' = <<"insert failed">>
       ELSE /\ agentExecutions' = agentExecutions
            /\ pc' = "runACPA"
            /\ caught' = caught
    /\ UNCHANGED <<entry, input, db, sourceUp, synthVars, repeatVars,
                   analysisVars, policyAnalysisResults, pipeVars, response,
                   reply, elapsed, ingestVars>>

----------------------------------------------------------------------------
(* AgentOrchestrator.runACPA *)

\* a caller (the tests) invokes the orchestrator directly
CallRunACPA(request) ==
    /\ pc = "idle"
    /\ entry' = "orchestrator"
    /\ input' = request
    /\ pc' = "runACPA"
    /\ UNCHANGED <<db, sourceUp, synthVars, repeatVars, analysisVars, dbVars,
                   pipeVars, response, caught, reply, elapsed, ingestVars>>

\* the supervisorInput literal built from the request
SupervisorInputOf(request) ==
    [type |-> "object", userId |-> 1]
    @@ Opt(request, "region", "region")
    @@ Opt(request, "policyType", "policyType")

\* the input SupervisorAgent.execute receives
SupInput == IF entry = "supervisor" THEN input ELSE SupervisorInputOf(input)

\* the catch block left out: the exception leaves runACPA
runACPARethrow(message) == Undefined

\* the catch block of runACPA
runACPACatch(message) ==
    [type |-> "object", success |-> FALSE, error |-> message]

\* first half of runACPA, up to the await of supervisorAgent.execute
RunACPA ==
    /\ pc = "runACPA"
    /\ IF IsNullish(input)
       THEN /\ response' = runACPACatch(<<"TypeError">>)
            /\ pc' = AfterOrchestrator
       ELSE /\ response' = response
            /\ pc' = "supervisor"
    /\ UNCHANGED <<entry, input, db, sourceUp, synthVars, repeatVars,
                   analysisVars, dbVars, pipeVars, caught, reply, elapsed,
                   ingestVars>>

\* the check of result.success left out: `data` is then undefined on failure
runACPAResponseUnchecked(result) ==
    [type |-> "object", success |-> TRUE]
    @@ Opt(Get(result, "data"), "executionId", "executionId")
    @@ (IF Has(result, "data")
        THEN [result |-> [ingestion |-> result.data.stages.ingestion,
                          analysis |-> result.data.stages.analysis,
                          synthesis |-> result.data.stages.synthesis]]
        ELSE <<>>)
    @@ Opt(Get(result, "data"), "totalExecutionTime", "totalExecutionTime")

\* the response runACPA builds from the supervisor's result
runACPAResponse(result) ==
    IF ~ result.success
    THEN [type |-> "object", success |-> FALSE] @@ Opt(result, "error", "error")
    ELSE [type |-> "object", success |-> TRUE,
          executionId |-> result.data.executionId,
          result |-> [ingestion |-> result.data.stages.ingestion,
                      analysis |-> result.data.stages.analysis,
                      synthesis |-> result.data.stages.synthesis],
          totalExecutionTime |-> result.data.totalExecutionTime]

\* second half of runACPA, after supervisorAgent.execute resolved
RunACPAReturn ==
    /\ pc = "runACPA_return"
    /\ response' = runACPAResponse(supResult)
    /\ pc' = AfterOrchestrator
    /\ UNCHANGED <<entry, input, db, sourceUp, synthVars, repeatVars,
                   analysisVars, dbVars, pipeVars, caught, reply, elapsed,
                   ingestVars>>

----------------------------------------------------------------------------
(* SupervisorAgent.execute *)

\* a caller (the tests) invokes the supervisor directly
CallSupervisor(in) ==
    /\ pc = "idle"
    /\ entry' = "supervisor"
    /\ input' = in
    /\ pc' = "supervisor"
    /\ UNCHANGED <<db, sourceUp, synthVars, repeatVars, analysisVars, dbVars,
                   pipeVars, response, caught, reply, elapsed, ingestVars>>

\* `exec-${Date.now()}-${Math.random()...}`
ExecutionIdOf(now, rnd) ==
    [type |-> "string", value |-> <<"exec-", now, "-", rnd>>]

\* start of execute: validation and the execution id
SupervisorExecute(rnd) ==
    /\ pc = "supervisor"
    /\ IF ~ validateInput(SupInput)
       THEN /\ supResult' = [type |-> "object", success |-> FALSE,
                             error |-> <<"Invalid supervisor input">>]
            /\ executionId' = executionId
            /\ pc' = AfterSupervisor
       ELSE /\ supResult' = supResult
            /\ executionId' = ExecutionIdOf(clock, rnd)
            /\ pc' = "Ingestion"
    /\ elapsed' = 0
    /\ UNCHANGED <<entry, input, db, sourceUp, synthVars, repeatVars,
                   analysisVars, dbVars, invoked, passed, settled,
                   ingestionOutput,
                   analysisOutput, synthesisOutput, response, caught, reply,
                   ingestVars, active>>

\* the success check left out
StageFailedNever(out) == FALSE

\* `if (!stageOutput.success)`
StageFailed(out) == ~ out.success

\* `throw new Error(`<Stage> failed: ${stageOutput.error}`)`
StageError(stage, out) ==
    <<StagePrefix(stage)>>
    \o (IF Has(out, "error") THEN out.error ELSE <<"undefined">>)

\* what a stage call settles with: the output it resolves with, or nothing
\* when it rejects
StageOutput(how, builtin, cause) ==
    CASE how = "ok" -> builtin
      [] how = "unsuccessful" -> Unsuccessful(cause)
      [] how = "reject" -> Undefined

\* the result of execute once the three stages succeeded
SupervisorSuccess(id, ing, ana, syn, time) ==
    [type |-> "object", success |-> TRUE,
     data |-> [type |-> "object", executionId |-> id,
               stages |-> [ingestion |-> ing, analysis |-> ana,
                           synthesis |-> syn],
               totalExecutionTime |-> time],
     executionTime |-> time]

\* the `await` left out: execute goes on while the stage call is pending
AwaitSkipped(stage) ==
    CASE stage = "Ingestion" -> "Analysis"
      [] stage = "Analysis" -> "Synthesis"
      [] stage = "Synthesis" -> "Synthesis_await"

\* `await this.call<Stage>Agent(...)`: execute is suspended until the stage
\* call settles
Awaiting(stage) ==
    CASE stage = "Ingestion" -> "Ingestion_await"
      [] stage = "Analysis" -> "Analysis_await"
      [] stage = "Synthesis" -> "Synthesis_await"

\* a failed stage that is called again
RetryStage(stage) == stage

\* a failed stage after which execute goes on with the stage that follows
FallThrough(stage) ==
    CASE stage = "Ingestion" -> "Analysis"
      [] stage = "Analysis" -> "Synthesis"
      [] stage = "Synthesis" -> AfterSupervisor

\* a failed stage: the throw, or the rejection of the await, leaves the try
\* block for the catch block, which returns to the caller of execute
AfterStageFailure(stage) == AfterSupervisor

\* a synthesis call that is handed the data of the ingestion
StageArgumentStale(stage, ing, ana) ==
    CASE stage = "Ingestion" -> Undefined
      [] stage = "Analysis" -> Get(ing, "data")
      [] stage = "Synthesis" -> Get(ing, "data")

\* the data argument of a stage call: none for callIngestionAgent,
\* ingestionOutput.data for callAnalysisAgent, analysisOutput.data for
\* callSynthesisAgent
StageArgument(stage, ing, ana) ==
    CASE stage = "Ingestion" -> Undefined
      [] stage = "Analysis" -> Get(ing, "data")
      [] stage = "Synthesis" -> Get(ana, "data")

\* execute enters a stage: it logs, calls the stage and suspends at the await
StartStage(stage) ==
    /\ pc = stage
    /\ invoked' = Append(invoked, stage)
    /\ passed' = Append(passed, StageArgument(stage, ingestionOutput,
                                              analysisOutput))
    /\ active' = active \cup {stage}
    /\ pc' = Awaiting(stage)
    /\ UNCHANGED <<entry, input, db, sourceUp, synthVars, repeatVars,
                   analysisVars, dbVars, settled, ingestionOutput,
                   analysisOutput, synthesisOutput, executionId, supResult,
                   response, caught, reply, elapsed, ingestVars>>

\* Stage 1: callIngestionAgent settles, and the check of its output
CallIngestionAgent(how, cause) ==
    /\ pc = Awaiting("Ingestion")
    /\ active' = active \ {"Ingestion"}
    /\ invoked' = invoked
    /\ passed' = passed
    /\ settled' = Append(settled, how)
    /\ elapsed' = elapsed + IngestionDelay
    /\ ingestionOutput' = StageOutput(how, callIngestionAgent(SupInput), cause)
    /\ IF how = "reject"
       THEN /\ supResult' = SupervisorCatch(cause, elapsed')
            /\ pc' = AfterStageFailure("Ingestion")
       ELSE IF StageFailed(ingestionOutput')
       THEN /\ supResult' = SupervisorCatch(
                    StageError("Ingestion", ingestionOutput'), elapsed')
            /\ pc' = AfterStageFailure("Ingestion")
       ELSE /\ supResult' = supResult
            /\ pc' = "Analysis"
    /\ UNCHANGED <<entry, input, db, sourceUp, synthVars, repeatVars,
                   analysisVars, dbVars, analysisOutput, synthesisOutput,
                   executionId, response, caught, reply, ingestVars>>

\* Stage 2: callAnalysisAgent settles, and the check of its output
CallAnalysisAgent(how, cause) ==
    /\ pc = Awaiting("Analysis")
    /\ active' = active \ {"Analysis"}
    /\ invoked' = invoked
    /\ passed' = passed
    /\ settled' = Append(settled, how)
    /\ elapsed' = elapsed + AnalysisDelay
    /\ analysisOutput' =
           StageOutput(how, callAnalysisAgent(SupInput, passed[Len(passed)]),
                       cause)
    /\ IF how = "reject"
       THEN /\ supResult' = SupervisorCatch(cause, elapsed')
            /\ pc' = AfterStageFailure("Analysis")
       ELSE IF StageFailed(analysisOutput')
       THEN /\ supResult' = SupervisorCatch(
                    StageError("Analysis", analysisOutput'), elapsed')
            /\ pc' = AfterStageFailure("Analysis")
       ELSE /\ supResult' = supResult
            /\ pc' = "Synthesis"
    /\ UNCHANGED <<entry, input, db, sourceUp, synthVars, repeatVars,
                   analysisVars, dbVars, ingestionOutput, synthesisOutput,
                   executionId, response, caught, reply, ingestVars>>

\* Stage 3: callSynthesisAgent settles, the check of its output and the
\* return of the successful result
CallSynthesisAgent(how, cause) ==
    /\ pc = Awaiting("Synthesis")
    /\ active' = active \ {"Synthesis"}
    /\ invoked' = invoked
    /\ passed' = passed
    /\ settled' = Append(settled, how)
    /\ elapsed' = elapsed + SynthesisDelay
    /\ synthesisOutput' =
           StageOutput(how, callSynthesisAgent(SupInput, passed[Len(passed)]),
                       cause)
    /\ supResult' =
           IF how = "reject"
           THEN SupervisorCatch(cause, elapsed')
           ELSE IF StageFailed(synthesisOutput')
           THEN SupervisorCatch(StageError("Synthesis", synthesisOutput'),
                                elapsed')
           ELSE SupervisorSuccess(executionId, ingestionOutput, analysisOutput,
                                  synthesisOutput', elapsed')
    /\ pc' = IF how = "reject" \/ StageFailed(synthesisOutput')
             THEN AfterStageFailure("Synthesis")
             ELSE AfterSupervisor
    /\ UNCHANGED <<entry, input, db, sourceUp, synthVars, repeatVars,
                   analysisVars, dbVars, ingestionOutput, analysisOutput,
                   executionId, response, caught, reply, ingestVars>>

----------------------------------------------------------------------------
(* acpaRouter.analyzePolicy: after the workflow *)

\* `result.error || "ACPA workflow failed"`
WorkflowError(result) ==
    IF Has(result, "error") /\ result.error # <<>>
    THEN result.error
    ELSE <<"ACPA workflow failed">>

\* the row of policy_analysis_results the trigger stores
ResultRow(in, result) ==
    [userId |-> 1, region |-> in.region, policyType |-> in.policyType,
     analysisData |-> result.analysis.data,
     recommendations |-> result.synthesis.data.recommendations,
     confidenceScore |-> IF Has(result.analysis.data, "confidence")
                         THEN result.analysis.data.confidence ELSE 0]

\* the value the mutation returns
AnalyzePolicyReturn(result, time) ==
    [success |-> TRUE,
     stages |-> Opt(Get(result, "result"), "ingestion", "ingestion")
                @@ Opt(Get(result, "result"), "analysis", "analysis")
                @@ Opt(Get(result, "result"), "synthesis", "synthesis"),
     totalExecutionTime |-> time]
    @@ Opt(result, "executionId", "executionId")

\* `if (db && result.result?.synthesis.data)`
ShouldStore(handle, result) ==
    handle /\ Has(result, "result") /\ Has(result.result.synthesis, "data")

\* a check of the result that never throws
WorkflowFailedNever(result) == FALSE

\* `if (!result.success)`
WorkflowFailed(result) == ~ result.success

\* from the check of result.success to the return, the store included
RouterStore(ok) ==
    /\ pc = "router_store"
    /\ IF WorkflowFailed(response)
       THEN /\ caught' = WorkflowError(response)
            /\ pc' = "router_catch"
            /\ UNCHANGED <<policyAnalysisResults, reply>>
       ELSE IF ShouldStore(db, response) /\ ~ ok
       THEN /\ caught' = <<"insert failed">>
            /\ pc' = "router_catch"
            /\ UNCHANGED <<policyAnalysisResults, reply>>
       ELSE /\ policyAnalysisResults' =
                IF ShouldStore(db, response)
                THEN Append(policyAnalysisResults,
                            ResultRow(input, response.result))
                ELSE policyAnalysisResults
            /\ reply' = [kind |-> "ok",
                         value |-> AnalyzePolicyReturn(response, elapsed)]
            /\ pc' = "done"
            /\ caught' = caught
    /\ UNCHANGED <<entry, input, db, sourceUp, synthVars, repeatVars,
                   analysisVars, agentExecutions, pipeVars, response, elapsed,
                   ingestVars>>

\* the catch block: "Log execution failure" and the error thrown to the caller
RouterCatch(ok) ==
    /\ pc = "router_catch"
    /\ IF db /\ ~ ok
       THEN /\ agentExecutions' = agentExecutions
            /\ reply' = [kind |-> "error", message |-> <<"insert failed">>]
       ELSE /\ agentExecutions' =
                IF db
                THEN Append(agentExecutions,
                            ExecutionRow("failed", input)
                            @@ [error |-> caught, executionTime |-> elapsed])
                ELSE agentExecutions
            /\ reply' = [kind |-> "error",
                         message |-> <<"ACPA analysis failed: ">> \o caught]
    /\ pc' = "done"
    /\ UNCHANGED <<entry, input, db, sourceUp, synthVars, repeatVars,
                   analysisVars, policyAnalysisResults, pipeVars, response,
                   caught, elapsed, ingestVars>>

----------------------------------------------------------------------------
(* DataIngestionAgent.execute *)

NewsCount == 15
ScientificCount == 8
PolicyCount == 6
APICount == 12

\* the DataSource a fetch of the given kind resolves with
fetchData(kind) ==
    [type |-> kind,
     count |-> CASE kind = "news" -> NewsCount
                 [] kind = "scientific" -> ScientificCount
                 [] kind = "policy" -> PolicyCount
                 [] kind = "api" -> APICount]

\* a reduce that counts the sources instead of adding up their counts
SumCountsOfLength(sources) == Len(sources)

RECURSIVE SumCounts(_)
\* sources.reduce((sum, source) => sum + source.count, 0)
SumCounts(sources) ==
    IF sources = <<>> THEN 0
    ELSE Head(sources).count + SumCounts(Tail(sources))

\* the values of the fetches taken in the order in which they settled
ValuesByCompletion(order) ==
    [i \in 1..Len(order) |-> fetchData(order[i])]

\* the array Promise.all resolves with, destructured into [newsData,
\* scientificData, policyData, apiData]: the value of each fetch stands at the
\* position of its promise in the argument, whatever the order of settlement
PromiseAllValues(order) ==
    [i \in 1..Len(SourceKinds) |-> fetchData(SourceKinds[i])]

\* a join that waits for every fetch and resolves whatever their outcomes
PromiseAllSettled(state) ==
    IF \A k \in KindSet : state[k] # "pending" THEN "fulfilled" ELSE "pending"

\* a join that settles with the first fetch that settles
PromiseRace(state) ==
    IF \E k \in KindSet : state[k] = "rejected" THEN "rejected"
    ELSE IF \E k \in KindSet : state[k] = "fulfilled" THEN "fulfilled"
    ELSE "pending"

\* the state of Promise.all([...]) given the states of the four fetches:
\* resolved once every fetch resolved, rejected as soon as one rejected
PromiseAll(state) ==
    IF \A k \in KindSet : state[k] = "fulfilled" THEN "fulfilled"
    ELSE IF \E k \in KindSet : state[k] = "rejected" THEN "rejected"
    ELSE "pending"

\* the output built once Promise.all resolved
IngestionSuccess(in, time) ==
    LET sources == PromiseAllValues(completed)
    IN  [type |-> "object", success |-> TRUE,
         data |-> [type |-> "object", sources |-> sources,
                   totalDataPoints |-> SumCounts(sources)]
                  @@ Opt(in, "region", "region"),
         executionTime |-> time]

\* the catch block of DataIngestionAgent.execute
IngestionCatch(message, time) ==
    [type |-> "object", success |-> FALSE, error |-> message,
     executionTime |-> time]

\* a caller invokes the agent: validation, then the four fetches are started
IngestionExecute(in) ==
    /\ pc = "idle"
    /\ entry' = "ingestionAgent"
    /\ input' = in
    /\ IF ~ validateInput(in)
       THEN /\ agentOut' = [type |-> "object", success |-> FALSE,
                            error |-> <<"Invalid ingestion input">>]
            /\ fetchState' = fetchState
            /\ pc' = "done"
       ELSE /\ agentOut' = agentOut
            /\ fetchState' = [k \in KindSet |-> "pending"]
            /\ pc' = "fetching"
    /\ elapsed' = 0
    /\ UNCHANGED <<db, sourceUp, synthVars, repeatVars, analysisVars, dbVars,
                   pipeVars, response, caught, reply, firstRejected,
                   completed>>

\* one source fetch settles: it resolves when the source answers and rejects
\* with the source's error otherwise
FetchSettle(kind, cause) ==
    /\ fetchState[kind] = "pending"
    /\ fetchState' =
           [fetchState EXCEPT
               ![kind] = IF sourceUp[kind] THEN "fulfilled" ELSE "rejected"]
    /\ firstRejected' =
           IF ~ sourceUp[kind] /\ firstRejected.kind = "none"
           THEN [kind |-> kind, cause |-> cause]
           ELSE firstRejected
    /\ completed' = Append(completed, kind)
    /\ UNCHANGED <<pc, entry, input, db, sourceUp, synthVars, repeatVars,
                   analysisVars, dbVars, pipeVars, response, caught, reply,
                   elapsed, agentOut>>

\* Promise.all settled: resolved when all four fetches resolved, rejected as
\* soon as one of them rejected
IngestionReturn ==
    /\ pc = "fetching"
    /\ PromiseAll(fetchState) # "pending"
    /\ agentOut' = IF PromiseAll(fetchState) = "fulfilled"
                   THEN IngestionSuccess(input, elapsed)
                   ELSE IngestionCatch(firstRejected.cause, elapsed)
    /\ pc' = "done"
    /\ UNCHANGED <<entry, input, db, sourceUp, synthVars, repeatVars,
                   analysisVars, dbVars, pipeVars, response, caught, reply,
                   elapsed, fetchState, firstRejected, completed>>

----------------------------------------------------------------------------
(* PolicyAnalysisAgent.execute *)

maxIterations == 3
confidenceThreshold == 80
PerformAnalysisDelay == 1500
RefinementDelay == 500

\* Math.max in the place of Math.min
Maximum(a, b) == IF a >= b THEN a ELSE b

\* Math.min
Minimum(a, b) == IF a <= b THEN a ELSE b

\* a base confidence that falls with the iteration
baseConfidenceDecreasing(iteration) == 65 - iteration * 12

\* const baseConfidence = 0.65 + iteration * 0.12, in hundredths
baseConfidence(iteration) == 65 + iteration * 12

\* the findings and the confidence the built-in performAnalysis resolves with
\* at the given iteration (ranges are pairs, costs are in tenths of $1B)
performAnalysis(iteration) ==
    [findings |->
        [type |-> "object",
         emissionsReductionPotential |->
             <<45 + iteration * 2, 55 + iteration * 2>>,
         implementationCost |-> <<25 + iteration * 2, 35 + iteration * 2>>,
         timelineYears |-> 10 - iteration,
         riskFactors |->
             <<"political resistance", "economic transition",
               "technology adoption">>
             \o (IF iteration > 0 THEN <<"supply chain constraints">>
                 ELSE <<>>),
         opportunityFactors |->
             <<"job creation in renewable sector", "improved air quality",
               "energy independence">>
             \o (IF iteration > 1 THEN <<"economic growth potential">>
                 ELSE <<>>)],
     confidence |-> Minimum(baseConfidence(iteration), 95)]

\* how a call of the analytic capability settles: it resolves with findings,
\* resolves without findings, or rejects
AnalysisSettlements == {"ok", "null", "reject"}

\* the confidences the capability can resolve with at an iteration: the
\* built-in one, and values on both sides of the threshold
Confidences(iteration) ==
    {performAnalysis(iteration).confidence, 50, confidenceThreshold}

\* what the capability resolved with
AnalysisResult(how, iteration, conf) ==
    [findings |-> IF how = "ok" THEN performAnalysis(iteration).findings
                  ELSE Null,
     confidence |-> conf]

\* a counter that starts at zero
IterationCountFromZero(i) == i

\* iterationCount = i + 1
IterationCountOf(i) == i + 1

\* a check that always breaks out of the loop
MeetsThresholdAlways(confidence) == TRUE

\* a check that never breaks out of the loop
MeetsThresholdNever(confidence) == FALSE

\* confidence >= this.confidenceThreshold
MeetsThreshold(confidence) == confidence >= confidenceThreshold

\* a check that lets a result without findings through
NoFindingsIgnored(findings) == FALSE

\* !findings
NoFindings(findings) == IsNullish(findings)

\* an assignment that adds the confidence to the one of the iteration before
AccumulateConfidence(old, new) == old + new

\* an assignment that keeps the best confidence seen so far
KeepBestConfidence(old, new) == IF old >= new THEN old ELSE new

\* confidence = result.confidence
AssignConfidence(old, new) == new

\* the output returned after the loop
AnalysisSuccess(in, l, time) ==
    [type |-> "object", success |-> TRUE,
     data |-> [type |-> "object", findings |-> l.findings,
               confidence |-> l.confidence,
               iterationCount |-> l.iterationCount]
              @@ Opt(in, "policyType", "analysisType")
              @@ Opt(in, "region", "region"),
     executionTime |-> time]

\* the catch block of PolicyAnalysisAgent.execute
AnalysisCatch(message, time) ==
    [type |-> "object", success |-> FALSE, error |-> message,
     executionTime |-> time]

\* a caller invokes the agent: validation, then the locals of the loop
AnalysisExecute(in) ==
    /\ pc = "idle"
    /\ entry' = "analysisAgent"
    /\ input' = in
    /\ IF ~ validateInput(in)
       THEN /\ analysisOut' = [type |-> "object", success |-> FALSE,
                               error |-> <<"Invalid analysis input">>]
            /\ loop' = loop
            /\ pc' = "done"
       ELSE /\ analysisOut' = analysisOut
            /\ loop' = [i |-> 0, findings |-> Null, confidence |-> 0,
                        iterationCount |-> 0]
            /\ pc' = "analysing"
    /\ elapsed' = 0
    /\ UNCHANGED <<db, sourceUp, synthVars, repeatVars, dbVars, pipeVars,
                   response, caught, reply, ingestVars, calls, delays>>

\* the arguments of a call that also hands over the findings of the iteration
\* before
PerformAnalysisArgsWithPrior(in, l) ==
    [input |-> in, iteration |-> l.i, priorFindings |-> l.findings]

\* this.performAnalysis(analysisInput, i)
PerformAnalysisArgs(in, l) == [input |-> in, iteration |-> l.i]

\* a sleep after every iteration that did not meet the threshold
ShouldRefineAlways(i) == TRUE

\* `if (i < this.maxIterations - 1)` in front of the refinement sleep
ShouldRefine(i) == i < maxIterations - 1

\* a rejection that is swallowed inside the loop, which goes on with the next
\* iteration
AfterAnalysisRejectContinue(i) == "refining"

\* a rejected performAnalysis leaves the loop for the catch block, which
\* returns
AfterAnalysisReject(i) == "done"

\* one pass of the loop body up to the refinement sleep: the capability is
\* called and awaited, its result assigned, the threshold checked
PerformAnalysis(how, conf, cause) ==
    /\ pc = "analysing"
    /\ loop.i < maxIterations
    /\ conf \in Confidences(loop.i)
    /\ calls' = Append(calls, [iteration |-> loop.i, how |-> how,
                               args |-> PerformAnalysisArgs(input, loop)]
                              @@ AnalysisResult(how, loop.i, conf)
                              @@ (IF how = "reject" THEN [error |-> cause]
                                  ELSE <<>>))
    /\ elapsed' = elapsed + PerformAnalysisDelay
    /\ IF how = "reject"
       THEN /\ loop' = [loop EXCEPT !.iterationCount = IterationCountOf(loop.i)]
            /\ analysisOut' = AnalysisCatch(cause, elapsed')
            /\ pc' = AfterAnalysisReject(loop.i)
       ELSE LET result == AnalysisResult(how, loop.i, conf)
                confidence == AssignConfidence(loop.confidence,
                                               result.confidence)
                break == MeetsThreshold(confidence)
                refine == ~ break /\ ShouldRefine(loop.i)
            IN  /\ loop' = [i |-> IF break \/ refine THEN loop.i
                                  ELSE loop.i + 1,
                            findings |-> result.findings,
                            confidence |-> confidence,
                            iterationCount |-> IterationCountOf(loop.i)]
                /\ pc' = IF break THEN "analysed"
                         ELSE IF refine THEN "refining" ELSE "analysing"
                /\ analysisOut' = analysisOut
    /\ UNCHANGED <<entry, input, db, sourceUp, synthVars, repeatVars, dbVars,
                   pipeVars, response, caught, reply, ingestVars, delays>>

\* await this.sleep(500), then i++
Sleep ==
    /\ pc = "refining"
    /\ delays' = delays + 1
    /\ elapsed' = elapsed + RefinementDelay
    /\ loop' = [loop EXCEPT !.i = loop.i + 1]
    /\ pc' = "analysing"
    /\ UNCHANGED <<entry, input, db, sourceUp, synthVars, repeatVars, dbVars,
                   pipeVars, response, caught, reply, ingestVars, calls,
                   analysisOut>>

\* after the loop: the throw when there are no findings, or the result
AnalysisReturn ==
    /\ \/ pc = "analysed"
       \/ pc = "analysing" /\ ~ (loop.i < maxIterations)
    /\ analysisOut' =
           IF NoFindings(loop.findings)
           THEN AnalysisCatch(<<"Analysis failed to produce findings">>,
                              elapsed)
           ELSE AnalysisSuccess(input, loop, elapsed)
    /\ pc' = "done"
    /\ UNCHANGED <<entry, input, db, sourceUp, synthVars, repeatVars, dbVars,
                   pipeVars, response, caught, reply, elapsed, ingestVars,
                   loop, calls, delays>>

----------------------------------------------------------------------------
(* SynthesisAgent.execute *)

RetrieveDelay == 500
GenerateDelay == 1200
SummaryDelay == 800
StoreDelay == 300

\* a PolicyRecommendation
Recommendation(priority, action, expectedImpact, timeline, steps) ==
    [priority |-> priority, action |-> action,
     expectedImpact |-> expectedImpact, timeline |-> timeline,
     implementationSteps |-> steps]

\* the context string the built-in retrieveMemoryContext resolves with
retrieveMemoryContext ==
    <<"Previous analysis for similar regions shows that renewable energy ",
      "incentives are most effective when combined with carbon pricing ",
      "mechanisms.">>

\* the recommendations the built-in generateRecommendations resolves with
generateRecommendations ==
    << Recommendation("high",
           "Implement renewable energy incentives and subsidies",
           "30% emissions reduction", "2-3 years",
           <<"Design incentive structure (feed-in tariffs or tax credits)",
             "Establish regulatory framework",
             "Launch public awareness campaign",
             "Monitor and adjust incentive levels">>),
       Recommendation("high",
           "Establish carbon pricing mechanism (carbon tax or ETS)",
           "15-20% emissions reduction", "1-2 years",
           <<"Conduct economic impact assessment",
             "Design pricing structure", "Implement phased rollout",
             "Create revenue recycling program">>),
       Recommendation("high",
           "Invest in public transportation infrastructure",
           "10% emissions reduction", "3-5 years",
           <<"Assess transportation needs", "Develop infrastructure plan",
             "Secure funding sources", "Phase implementation by region">>),
       Recommendation("medium",
           "Support industrial energy efficiency programs",
           "8-12% emissions reduction", "2-4 years",
           <<"Identify energy-intensive industries",
             "Provide technical assistance", "Offer financing for upgrades",
             "Track and report progress">>),
       Recommendation("medium",
           "Develop worker transition and retraining programs",
           "Social equity improvement", "Ongoing",
           <<"Identify affected workers", "Design training programs",
             "Partner with educational institutions",
             "Provide income support during transition">>) >>

\* a recommendation of the given priority as the reasoning capability may
\* produce it
SomeRecommendation(priority) ==
    Recommendation(priority, "Expand monitoring", "Better data", "1 year",
                   <<>>)

\* lists the reasoning capability can resolve with instead of the built-in
\* one: none, one in order, and two that are not in order of priority
OtherRecommendations ==
    { <<>>,
      <<SomeRecommendation("high"), SomeRecommendation("low")>>,
      <<SomeRecommendation("medium"), SomeRecommendation("high")>>,
      <<SomeRecommendation("low"), SomeRecommendation("medium")>> }

\* `${input.region}` in a template literal
RegionText(in) ==
    IF Has(in, "region") THEN in.region ELSE <<"undefined">>

\* the summary the built-in generateExecutiveSummary resolves with, trimmed
generateExecutiveSummary(in) ==
    <<"EXECUTIVE SUMMARY: Climate Policy Recommendations for ">>
    \o RegionText(in)
    \o <<"\n\nBased on comprehensive analysis of global climate policy data",
         "Regular review and adjustment is recommended as new data becomes ",
         "available.">>

\* how the calls of the four capabilities of the synthesis settle: "ok" is
\* the built-in value, "other" another value of the same type (another list
\* of recommendations, the empty summary, a negative acknowledgement)
SynthesisSettlements == {"ok", "other", "reject"}

\* the order of the capability calls in the try block, with the write moved
\* before the summary
StepAfterStoreEarly(step) ==
    CASE step = "retrieve" -> "generate"
      [] step = "generate" -> "store"
      [] step = "store" -> "summarise"
      [] step = "summarise" -> "synthesised"

\* the order of the awaited capability calls in the try block
StepAfter(step) ==
    CASE step = "retrieve" -> "generate"
      [] step = "generate" -> "summarise"
      [] step = "summarise" -> "store"
      [] step = "store" -> "synthesised"

\* a rejection that is swallowed: the run goes on with the next call
OnSettleSwallow(step, how) == StepAfter(step)

\* where execute goes when an awaited call settled: a rejection is thrown
\* into the catch block, which returns
OnSettle(step, how) ==
    IF how = "reject" THEN "done" ELSE StepAfter(step)

\* the data of a result that always reports the memory as updated
SynthesisDataAlwaysUpdated(l) ==
    [type |-> "object", memoryUpdated |-> TRUE]
    @@ Opt(l, "recommendations", "recommendations")
    @@ Opt(l, "executiveSummary", "executiveSummary")

\* the data of the successful result
SynthesisData(l) ==
    [type |-> "object"]
    @@ Opt(l, "recommendations", "recommendations")
    @@ Opt(l, "executiveSummary", "executiveSummary")
    @@ Opt(l, "memoryUpdated", "memoryUpdated")

\* the output returned at the end of the try block
SynthesisSuccess(l, time) ==
    [type |-> "object", success |-> TRUE, data |-> SynthesisData(l),
     executionTime |-> time]

\* the catch block of SynthesisAgent.execute
SynthesisCatch(message, time) ==
    [type |-> "object", success |-> FALSE, error |-> message,
     executionTime |-> time]

\* a caller invokes the agent: validation, then the try block is entered
SynthesisExecute(in) ==
    /\ pc = "idle"
    /\ entry' = "synthesisAgent"
    /\ input' = in
    /\ IF ~ validateInput(in)
       THEN /\ synthOut' = [type |-> "object", success |-> FALSE,
                            error |-> <<"Invalid synthesis input">>]
            /\ synth' = synth
            /\ pc' = "done"
       ELSE /\ synthOut' = synthOut
            /\ synth' = [type |-> "object"]
            /\ pc' = "retrieve"
    /\ elapsed' = 0
    /\ UNCHANGED <<db, sourceUp, repeatVars, analysisVars, dbVars, pipeVars,
                   response, caught, reply, ingestVars, ops>>

\* what an awaited call of the synthesis does to the run: the call is
\* recorded, a rejection goes to the catch block
SynthesisAwait(step, how, cause, delay) ==
    /\ pc = step
    /\ ops' = Append(ops, [step |-> step, how |-> how])
    /\ elapsed' = elapsed + delay
    /\ pc' = OnSettle(step, how)
    /\ synthOut' = IF pc' = "done" THEN SynthesisCatch(cause, elapsed')
                   ELSE synthOut
    /\ UNCHANGED <<entry, input, db, sourceUp, repeatVars, analysisVars,
                   dbVars, pipeVars, response, caught, reply, ingestVars>>

\* const memoryContext = await this.retrieveMemoryContext(synthesisInput)
RetrieveMemoryContext(how, cause) ==
    /\ how \in {"ok", "reject"}
    /\ SynthesisAwait("retrieve", how, cause, RetrieveDelay)
    /\ synth' = IF how = "ok"
                THEN synth @@ [memoryContext |-> retrieveMemoryContext]
                ELSE synth

\* const recommendations = await this.generateRecommendations(...)
GenerateRecommendations(how, other, cause) ==
    /\ SynthesisAwait("generate", how, cause, GenerateDelay)
    /\ synth' = CASE how = "ok" ->
                         synth @@ [recommendations |-> generateRecommendations]
                   [] how = "other" -> synth @@ [recommendations |-> other]
                   [] how = "reject" -> synth

\* const executiveSummary = await this.generateExecutiveSummary(...)
GenerateExecutiveSummary(how, cause) ==
    /\ SynthesisAwait("summarise", how, cause, SummaryDelay)
    /\ synth' = CASE how = "ok" ->
                         synth @@ [executiveSummary |->
                                       generateExecutiveSummary(input)]
                   [] how = "other" -> synth @@ [executiveSummary |-> <<>>]
                   [] how = "reject" -> synth

\* const memoryUpdated = await this.storeInMemoryBank(...)
StoreInMemoryBank(how, cause) ==
    /\ SynthesisAwait("store", how, cause, StoreDelay)
    /\ synth' = CASE how = "ok" -> synth @@ [memoryUpdated |-> TRUE]
                   [] how = "other" -> synth @@ [memoryUpdated |-> FALSE]
                   [] how = "reject" -> synth

\* the return at the end of the try block
SynthesisReturn ==
    /\ pc = "synthesised"
    /\ synthOut' = SynthesisSuccess(synth, elapsed)
    /\ pc' = "done"
    /\ UNCHANGED <<entry, input, db, sourceUp, repeatVars, analysisVars,
                   dbVars, pipeVars, response, caught, reply, elapsed,
                   ingestVars, synth, ops>>

----------------------------------------------------------------------------
(* Inputs and the next-state relation *)

\* the objects a caller passes as a request
Requests ==
    {[type |-> "object", region |-> r, policyType |-> p, userId |-> 1] :
        r \in Strings, p \in Strings}

\* what the tests pass to an agent directly: null, {}, or a request
AgentInputs == {Null, [type |-> "object"]} \cup Requests

Next ==
    \/ \E r \in Strings, p \in Strings, handle \in BOOLEAN :
           AnalyzePolicy(r, p, handle)
    \/ \E ok \in BOOLEAN : RouterLogStart(ok)
    \/ \E request \in {Null} \cup Requests : CallRunACPA(request)
    \/ RunACPA
    \/ RunACPAReturn
    \/ \E in \in AgentInputs : CallSupervisor(in)
    \/ \E rnd \in 1..MaxRnd : SupervisorExecute(rnd)
    \/ \E i \in 1..Len(Stages) : StartStage(Stages[i])
    \/ \E how \in Settlements, cause \in Causes : CallIngestionAgent(how, cause)
    \/ \E how \in Settlements, cause \in Causes : CallAnalysisAgent(how, cause)
    \/ \E how \in Settlements, cause \in Causes : CallSynthesisAgent(how, cause)
    \/ \E ok \in BOOLEAN : RouterStore(ok)
    \/ \E ok \in BOOLEAN : RouterCatch(ok)
    \/ \E in \in AgentInputs : IngestionExecute(in)
    \/ \E k \in KindSet, cause \in Causes : FetchSettle(k, cause)
    \/ IngestionReturn
    \/ \E in \in AgentInputs : AnalysisExecute(in)
    \/ \E how \in AnalysisSettlements, cause \in Causes,
          conf \in UNION {Confidences(i) : i \in 0..(maxIterations - 1)} :
           PerformAnalysis(how, conf, cause)
    \/ Sleep
    \/ AnalysisReturn
    \/ \E in \in AgentInputs : SynthesisExecute(in)
    \/ \E how \in SynthesisSettlements, cause \in Causes :
           RetrieveMemoryContext(how, cause)
    \/ \E how \in SynthesisSettlements, cause \in Causes,
          other \in OtherRecommendations :
           GenerateRecommendations(how, other, cause)
    \/ \E how \in SynthesisSettlements, cause \in Causes :
           GenerateExecutiveSummary(how, cause)
    \/ \E how \in SynthesisSettlements, cause \in Causes :
           StoreInMemoryBank(how, cause)
    \/ SynthesisReturn

Spec == Init /\ [][Next]_vars

\* the steps of a run that was started: the continuations the event loop
\* runs once the awaited call has settled
Progress ==
    \/ \E ok \in BOOLEAN : RouterLogStart(ok)
    \/ RunACPA
    \/ RunACPAReturn
    \/ \E rnd \in 1..MaxRnd : SupervisorExecute(rnd)
    \/ \E i \in 1..Len(Stages) : StartStage(Stages[i])
    \/ \E how \in Settlements, cause \in Causes : CallIngestionAgent(how, cause)
    \/ \E how \in Settlements, cause \in Causes : CallAnalysisAgent(how, cause)
    \/ \E how \in Settlements, cause \in Causes : CallSynthesisAgent(how, cause)
    \/ \E ok \in BOOLEAN : RouterStore(ok)
    \/ \E ok \in BOOLEAN : RouterCatch(ok)

\* the runs under the assumption that every awaited call settles (the
\* built-in stages settle by a timer) and its continuation is then run;
\* every such step changes pc
FairSpec == Spec /\ WF_pc(Progress)

----------------------------------------------------------------------------
(* Repeated and concurrent calls of the trigger *)

\* a call of analyzePolicy that passed the schema: startTime is read and the
\* running row is inserted when there is a database handle
RepeatTrigger(region, policyType, handle) ==
    LET in == [type |-> "object", region |-> region,
               policyType |-> policyType]
    IN  /\ Len(runs) < MaxRuns
        /\ analyzePolicyInput(in) = <<>>
        /\ runs' = Append(runs, [request |-> in, db |-> handle,
                                 state |-> "started", startTime |-> clock,
                                 executionId |-> Undefined])
        /\ agentExecutions' =
               IF handle
               THEN Append(agentExecutions, ExecutionRow("running", in))
               ELSE agentExecutions
        /\ UNCHANGED <<pc, entry, input, db, sourceUp, synthVars,
                       analysisVars, policyAnalysisResults, pipeVars,
                       response, caught, reply, elapsed, ingestVars, clock,
                       tasks>>

\* SupervisorAgent.execute of the i-th call draws its execution id
RepeatExecute(i, rnd) ==
    /\ i \in 1..Len(runs)
    /\ runs[i].state = "started"
    /\ runs' = [runs EXCEPT ![i].state = "running",
                            ![i].executionId = ExecutionIdOf(clock, rnd)]
    /\ UNCHANGED <<pc, entry, input, db, sourceUp, synthVars, analysisVars,
                   dbVars, pipeVars, response, caught, reply, elapsed,
                   ingestVars, clock, tasks>>

\* the i-th call returns its execution id, or logs the failed row and
\* throws; the stages it awaited took time
RepeatReturn(i, ok) ==
    /\ i \in 1..Len(runs)
    /\ runs[i].state = "running"
    /\ clock > runs[i].startTime
    /\ runs' = [runs EXCEPT ![i].state = IF ok THEN "returned" ELSE "thrown"]
    /\ agentExecutions' =
           IF runs[i].db /\ ~ ok
           THEN Append(agentExecutions,
                       ExecutionRow("failed", runs[i].request)
                       @@ [error |-> <<"timeout">>,
                           executionTime |-> clock - runs[i].startTime])
           ELSE agentExecutions
    /\ UNCHANGED <<pc, entry, input, db, sourceUp, synthVars, analysisVars,
                   policyAnalysisResults, pipeVars, response, caught, reply,
                   elapsed, ingestVars, clock, tasks>>

\* a millisecond passes
Tick ==
    /\ clock < MaxClock
    /\ clock' = clock + 1
    /\ UNCHANGED <<pc, entry, input, db, sourceUp, synthVars, analysisVars,
                   dbVars, pipeVars, response, caught, reply, elapsed,
                   ingestVars, runs, tasks>>

InitRepeat == Init /\ \A k \in KindSet : sourceUp[k]

NextRepeat ==
    \/ \E r \in Strings, p \in Strings, handle \in BOOLEAN :
           RepeatTrigger(r, p, handle)
    \/ \E i \in 1..MaxRuns, rnd \in 1..MaxRnd : RepeatExecute(i, rnd)
    \/ \E i \in 1..MaxRuns, ok \in BOOLEAN : RepeatReturn(i, ok)
    \/ Tick

SpecRepeat == InitRepeat /\ [][NextRepeat]_vars

----------------------------------------------------------------------------
(* Concurrent calls of runACPA on the one orchestrator *)

MaxTasks == 2

\* the regions of the concurrent requests: two that pass validation and a
\* blank one
ConcurrentRegions == {<<"C", "A">>, <<"U", "K">>, Blank(1)}

StageDelay(stage) ==
    CASE stage = "Ingestion" -> IngestionDelay
      [] stage = "Analysis" -> AnalysisDelay
      [] stage = "Synthesis" -> SynthesisDelay

\* the canned output of a stage call
StageCall(stage, in, arg) ==
    CASE stage = "Ingestion" -> callIngestionAgent(in)
      [] stage = "Analysis" -> callAnalysisAgent(in, arg)
      [] stage = "Synthesis" -> callSynthesisAgent(in, arg)

\* an input kept in a field of the agent instance, which the call that came
\* last has overwritten
TaskInputShared(ts, i) == SupervisorInputOf(ts[Len(ts)].request)

\* the supervisorInput of the i-th call: a local of that call of runACPA,
\* built from its own request
TaskInput(ts, i) == SupervisorInputOf(ts[i].request)

\* a call of runACPA up to its first await: the supervisorInput, the
\* validation and the execution id of execute, and the call of the ingestion
NewTask(request, rnd) ==
    IF ~ validateInput(SupervisorInputOf(request))
    THEN [request |-> request, rnd |-> rnd, at |-> "returned",
          settled |-> <<>>, executionId |-> Undefined,
          ingestionOutput |-> Undefined, analysisOutput |-> Undefined,
          time |-> 0,
          response |-> runACPAResponse(
              [type |-> "object", success |-> FALSE,
               error |-> <<"Invalid supervisor input">>])]
    ELSE [request |-> request, rnd |-> rnd, at |-> "Ingestion",
          settled |-> <<>>, executionId |-> ExecutionIdOf(0, rnd),
          ingestionOutput |-> Undefined, analysisOutput |-> Undefined,
          time |-> 0, response |-> Undefined]

\* the awaited stage call of a call of execute settles: its locals after the
\* success check, and the response of runACPA when execute returned
SettleStage(task, in, how, cause) ==
    LET stage == task.at
        arg == StageArgument(stage, task.ingestionOutput, task.analysisOutput)
        out == StageOutput(how, StageCall(stage, in, arg), cause)
        time == task.time + StageDelay(stage)
    IN  [task EXCEPT
            !.settled = Append(@, [how |-> how, cause |-> cause]),
            !.time = time,
            !.ingestionOutput = IF stage = "Ingestion" THEN out ELSE @,
            !.analysisOutput = IF stage = "Analysis" THEN out ELSE @,
            !.at = IF how = "reject" \/ StageFailed(out) THEN "returned"
                   ELSE CASE stage = "Ingestion" -> "Analysis"
                          [] stage = "Analysis" -> "Synthesis"
                          [] stage = "Synthesis" -> "returned",
            !.response =
                IF how = "reject"
                THEN runACPAResponse(SupervisorCatch(cause, time))
                ELSE IF StageFailed(out)
                THEN runACPAResponse(
                         SupervisorCatch(StageError(stage, out), time))
                ELSE IF stage = "Synthesis"
                THEN runACPAResponse(
                         SupervisorSuccess(task.executionId,
                                           task.ingestionOutput,
                                           task.analysisOutput, out, time))
                ELSE @]

\* a caller invokes orchestrator.runACPA while other calls are in flight
ConcurrentRunACPA(region, policyType, rnd) ==
    /\ Len(tasks) < MaxTasks
    /\ tasks' = Append(tasks,
                       NewTask([type |-> "object", region |-> region,
                                policyType |-> policyType, userId |-> 1],
                               rnd))
    /\ UNCHANGED <<pc, entry, input, db, sourceUp, synthVars, analysisVars,
                   dbVars, pipeVars, response, caught, reply, elapsed,
                   ingestVars, clock, runs>>

\* the stage call the i-th call of runACPA awaits settles
ConcurrentStage(i, how, cause) ==
    /\ i \in 1..Len(tasks)
    /\ tasks[i].at \in {"Ingestion", "Analysis", "Synthesis"}
    /\ tasks' = [tasks EXCEPT
                    ![i] = SettleStage(tasks[i], TaskInput(tasks, i), how,
                                       cause)]
    /\ UNCHANGED <<pc, entry, input, db, sourceUp, synthVars, analysisVars,
                   dbVars, pipeVars, response, caught, reply, elapsed,
                   ingestVars, clock, runs>>

InitConcurrent == Init /\ \A k \in KindSet : sourceUp[k]

NextConcurrent ==
    \/ \E region \in ConcurrentRegions, policyType \in Names,
          rnd \in 1..MaxRnd :
           ConcurrentRunACPA(region, policyType, rnd)
    \/ \E i \in 1..MaxTasks, how \in Settlements :
           ConcurrentStage(i, how, <<"timeout">>)

SpecConcurrent == InitConcurrent /\ [][NextConcurrent]_vars

Done == pc = "done"

TypeOK ==
    /\ pc \in {"idle", "router_log", "runACPA", "supervisor", "Ingestion",
               "Analysis", "Synthesis", "Ingestion_await", "Analysis_await",
               "Synthesis_await", "runACPA_return", "router_store",
               "router_catch", "fetching", "analysing", "refining", "analysed",
               "retrieve", "generate", "summarise", "store", "synthesised",
               "done"}
    /\ entry \in {"none", "router", "orchestrator", "supervisor",
                  "ingestionAgent", "analysisAgent", "synthesisAgent"}
    /\ Len(settled) <= Len(invoked)
    /\ clock \in 0..MaxClock
    /\ Len(runs) <= MaxRuns
    /\ Len(tasks) <= MaxTasks
    /\ Len(passed) = Len(invoked)
    /\ Len(ops) <= 4
    /\ Len(invoked) <= Len(Stages)

----------------------------------------------------------------------------
(* Properties of the orchestration *)

\* the result the caller of the pipeline's entry point received
Outcome == IF entry = "supervisor" THEN supResult ELSE response

\* the stage a run stopped in, when a stage call is what failed it
LastStage == invoked[Len(invoked)]
StageFailure == Len(invoked) >= 1 /\ settled[Len(settled)] # "ok"

\* a request field that is missing or empty after trimming
Blankish(obj, name) ==
    IsNullish(obj) \/ ~ Has(obj, name) \/ Trim(obj[name]) = <<>>
InvalidRequest(obj) == Blankish(obj, "region") \/ Blankish(obj, "policyType")

\* the number of rows of agent_executions with the given status
CountStatus(status) ==
    Cardinality({i \in 1..Len(agentExecutions) :
                    agentExecutions[i].status = status})

\* C1: the stages are entered in the order Ingestion, Analysis, Synthesis,
\* and a stage is entered only after its predecessor resolved with a success
\* output: a stage call that resolved unsuccessfully or rejected is the last
\* stage call of its run.
C1_StageOrder ==
    /\ invoked = SubSeq(Stages, 1, Len(invoked))
    /\ \A i \in 1..Len(settled) : settled[i] # "ok" => i = Len(invoked)
    /\ Len(invoked) >= 2 => Has(ingestionOutput, "success")
                            /\ ingestionOutput.success
    /\ Len(invoked) >= 3 => Has(analysisOutput, "success")
                            /\ analysisOutput.success

\* a run that ended because its analysis stage returned an unsuccessful output
C1_Witness ==
    /\ pc = "done"
    /\ invoked = <<"Ingestion", "Analysis">>
    /\ settled = <<"ok", "unsuccessful">>

\* the three stage outputs of a result are present and successes
AllStagesSucceeded(stages) ==
    \A name \in {"ingestion", "analysis", "synthesis"} :
        /\ Has(stages, name)
        /\ Has(stages[name], "success")
        /\ stages[name].success

\* C2: a run reported as successful by the supervisor, by the orchestrator or
\* by the trigger carries all three stage outputs and each of them is a
\* success.
C2_SuccessIsComplete ==
    /\ (Has(supResult, "success") /\ supResult.success)
           => Has(supResult, "data")
              /\ AllStagesSucceeded(supResult.data.stages)
    /\ (Has(response, "success") /\ response.success)
           => Has(response, "result") /\ AllStagesSucceeded(response.result)
    /\ reply.kind = "ok" => AllStagesSucceeded(reply.value.stages)

\* the trigger reported success to its caller
C2_Witness ==
    /\ pc = "done"
    /\ entry = "router"
    /\ reply.kind = "ok"
    /\ response.success

\* C3: a request whose region or policyType is missing or empty after
\* trimming is rejected with success=false and an error, and no stage is
\* started for it.
C3_InvalidRequestRejected ==
    (pc = "done" /\ entry \in {"orchestrator", "supervisor"}
     /\ InvalidRequest(input))
        => /\ ~ Outcome.success
           /\ Has(Outcome, "error")
           /\ invoked = <<>>

\* C4: a call of the trigger with a region or policyType that is empty after
\* trimming is rejected and records no running row.
C4_BlankNeverStarted ==
    (entry = "router" /\ InvalidRequest(input))
        => /\ CountStatus("running") = 0
           /\ pc = "done" => reply.kind = "rejected"

\* a write to the ledger failed in this run
LedgerWriteFailed ==
    \/ caught = <<"insert failed">>
    \/ (reply.kind = "error" /\ reply.message = <<"insert failed">>)

\* rows of agent_executions that report the end of a stage
StageEvents ==
    {i \in 1..Len(agentExecutions) :
        /\ agentExecutions[i].agentName # "SupervisorAgent"
        /\ agentExecutions[i].status \in {"completed", "failed"}}

\* rows of agent_executions that report the end of the run
TerminalEvents ==
    {i \in 1..Len(agentExecutions) :
        /\ agentExecutions[i].agentName = "SupervisorAgent"
        /\ agentExecutions[i].status \in {"completed", "failed"}}

\* C5: an accepted run whose ledger writes all went through has recorded one
\* running row, one completed or failed row per stage entered, and one
\* terminal row for the run.
C5_LedgerEvents ==
    (entry = "router" /\ pc = "done" /\ db /\ reply.kind # "rejected"
     /\ ~ InvalidRequest(input) /\ ~ LedgerWriteFailed)
        => /\ CountStatus("running") = 1
           /\ Cardinality(StageEvents) = Len(invoked)
           /\ Cardinality(TerminalEvents) = 1

\* C6: the error of a run that failed in a stage names that stage, followed
\* by the cause, when the stage resolved unsuccessfully and when it rejected.
C6_ErrorNamesStage ==
    (pc = "done" /\ entry \in {"orchestrator", "supervisor"}
     /\ ~ InvalidRequest(input) /\ StageFailure)
        => /\ Has(Outcome, "error")
           /\ Len(Outcome.error) >= 1
           /\ Head(Outcome.error) = StagePrefix(LastStage)

\* the key of a stage in the result of a run
StageKey(stage) ==
    CASE stage = "Ingestion" -> "ingestion"
      [] stage = "Analysis" -> "analysis"
      [] stage = "Synthesis" -> "synthesis"

\* C7: what the orchestrator returns holds a timing for every stage that was
\* entered, a failed stage included.
C7_TimingsForEnteredStages ==
    (pc = "done" /\ entry = "orchestrator" /\ ~ InvalidRequest(input))
        => \A i \in 1..Len(invoked) :
               /\ Has(response, "result")
               /\ Has(response.result[StageKey(invoked[i])], "executionTime")

\* C8: when one of the sources fails, a run through the orchestrator fails
\* with an ingestion failure and produces no analysis and no synthesis output.
C8_SourceFailureFailsRun ==
    (pc = "done" /\ entry = "orchestrator" /\ ~ InvalidRequest(input)
     /\ \E k \in KindSet : ~ sourceUp[k])
        => /\ ~ response.success
           /\ invoked = <<"Ingestion">>
           /\ StageFailure
           /\ analysisOutput = Undefined
           /\ synthesisOutput = Undefined

\* C9: a valid request, with all sources answering and every stage call
\* resolving with its built-in output, ends succeeded with an ingestion total
\* above zero, an iteration count within 1..3 and at least one recommendation.
C9_HappyPathRecord ==
    (pc = "done" /\ entry = "orchestrator" /\ ~ InvalidRequest(input)
     /\ (\A k \in KindSet : sourceUp[k])
     /\ (\A i \in 1..Len(settled) : settled[i] = "ok"))
        => /\ response.success
           /\ Has(response.result.ingestion.data, "totalDataPoints")
           /\ response.result.ingestion.data.totalDataPoints > 0
           /\ Has(response.result.analysis.data, "iterationCount")
           /\ response.result.analysis.data.iterationCount \in 1..3
           /\ Len(response.result.synthesis.data.recommendations) >= 1

\* C10: runACPA always resolves with a response whose success is a boolean;
\* an unsuccessful response carries an error and no stage results.
C10_RunACPAAlwaysResponds ==
    (pc = "done" /\ entry = "orchestrator")
        => /\ response.type = "object"
           /\ ~ IsNullish(response)
           /\ Has(response, "success")
           /\ response.success \in BOOLEAN
           /\ ~ response.success
                  => Has(response, "error") /\ ~ Has(response, "result")

\* runACPA caught the exception of a null request and answered success=false
C10_Witness ==
    /\ pc = "done"
    /\ entry = "orchestrator"
    /\ IsNullish(input)
    /\ Has(response, "success")
    /\ ~ response.success

\* C11: within one run of the supervisor at most one stage call is awaited at
\* any time: a stage is called only after the call of the stage before it
\* has settled, and no source fetch is pending while Analysis or Synthesis
\* is awaited.
C11_OneStageAtATime ==
    /\ Cardinality(active) <= 1
    /\ \A i \in 2..Len(invoked) : Len(settled) >= i - 1
    /\ active \cap {"Analysis", "Synthesis"} # {}
           => \A k \in KindSet : fetchState[k] # "pending"

\* Analysis is awaited after Ingestion settled and before Synthesis is called
C11_Witness ==
    /\ active = {"Analysis"}
    /\ invoked = <<"Ingestion", "Analysis">>
    /\ settled = <<"ok">>

\* whether DataIngestionAgent.execute returned a successful output
IngestionSucceeded ==
    /\ entry = "ingestionAgent"
    /\ Has(agentOut, "success")
    /\ agentOut.success

\* whether DataIngestionAgent.execute returned a failure from inside its try
IngestionFailed ==
    /\ entry = "ingestionAgent"
    /\ validateInput(input)
    /\ Has(agentOut, "success")
    /\ ~ agentOut.success

RECURSIVE ItemTotal(_, _)
\* the counts of the first n sources added up
ItemTotal(sources, n) ==
    IF n = 0 THEN 0 ELSE ItemTotal(sources, n - 1) + sources[n].count

\* C12: on every successful ingestion totalDataPoints equals the sum of the
\* counts of the sources of the same bundle.
C12_TotalIsSumOfCounts ==
    IngestionSucceeded
        => agentOut.data.totalDataPoints
               = ItemTotal(agentOut.data.sources, Len(agentOut.data.sources))

\* a successful ingestion whose four sources add up to 15 + 8 + 6 + 12
C12_Witness ==
    /\ IngestionSucceeded
    /\ Len(agentOut.data.sources) = 4
    /\ agentOut.data.totalDataPoints = 41

\* C13: on every successful ingestion the sources are non-empty and hold one
\* result per source kind in the order news, scientific, policy, api,
\* whatever the order in which the fetches settled.
C13_SourcesInKindOrder ==
    IngestionSucceeded
        => /\ agentOut.data.sources # <<>>
           /\ Len(agentOut.data.sources) = Len(SourceKinds)
           /\ \A i \in 1..Len(SourceKinds) :
                  agentOut.data.sources[i].type = SourceKinds[i]

\* a successful ingestion whose fetches settled api first and news last
C13_Witness ==
    /\ IngestionSucceeded
    /\ completed[1] = "api"
    /\ completed[4] = "news"

\* C14: when a source fetch has failed, the output of the ingestion is a
\* failure without data, and an output with data is built from all four
\* fetches, each of them resolved.
C14_AllOrNothing ==
    /\ (entry = "ingestionAgent" /\ agentOut # Undefined
          /\ \E k \in KindSet : fetchState[k] = "rejected")
           => ~ agentOut.success /\ ~ Has(agentOut, "data")
    /\ (entry = "ingestionAgent" /\ Has(agentOut, "data"))
           => /\ \A k \in KindSet : sourceUp[k]
              /\ Len(agentOut.data.sources) = Cardinality(KindSet)

\* one fetch rejected after the three others resolved: a failure without data
C14_Witness ==
    /\ IngestionFailed
    /\ ~ Has(agentOut, "data")
    /\ Cardinality({k \in KindSet : fetchState[k] = "fulfilled"}) = 3
    /\ Cardinality({k \in KindSet : fetchState[k] = "rejected"}) = 1

\* C15 as stated: the ingestion returns its output, success or failure, only
\* when none of its fetches is still pending.
C15_ReturnsAfterAllFetches ==
    (entry = "ingestionAgent" /\ pc = "done" /\ validateInput(input))
        => \A k \in KindSet : fetchState[k] # "pending"

\* C15: a successful output is returned only when all four fetches have
\* resolved; a failure is returned once a fetch has rejected, with the error
\* of the first fetch that rejected, while other fetches may be pending.
C15_ReturnsOnFirstRejection ==
    /\ IngestionSucceeded => \A k \in KindSet : fetchState[k] = "fulfilled"
    /\ IngestionFailed
           => /\ \E k \in KindSet : fetchState[k] = "rejected"
              /\ firstRejected.kind # "none"
              /\ fetchState[firstRejected.kind] = "rejected"
              /\ agentOut.error = firstRejected.cause

\* a failure was returned while three fetches were still pending
C15_Witness ==
    /\ IngestionFailed
    /\ pc = "done"
    /\ Cardinality({k \in KindSet : fetchState[k] = "pending"}) = 3

\* C16: the failure returned by the ingestion after a source fetch failed
\* names the kind of the source that failed.
C16_FailureNamesSourceKind ==
    (IngestionFailed /\ firstRejected.kind # "none"
        /\ firstRejected.cause = <<"timeout">>)
        => \E i \in 1..Len(agentOut.error) :
               agentOut.error[i] = firstRejected.kind

\* whether PolicyAnalysisAgent.execute returned a successful output
AnalysisSucceeded ==
    /\ entry = "analysisAgent"
    /\ Has(analysisOut, "success")
    /\ analysisOut.success

\* C17: on every successful analysis iterationCount equals the number of
\* calls of performAnalysis made in the run and lies in 1..maxIterations.
C17_IterationCountIsCalls ==
    AnalysisSucceeded
        => /\ analysisOut.data.iterationCount = Len(calls)
           /\ analysisOut.data.iterationCount >= 1
           /\ analysisOut.data.iterationCount <= maxIterations

\* a successful analysis that made two calls
C17_Witness ==
    /\ AnalysisSucceeded
    /\ Len(calls) = 2
    /\ analysisOut.data.iterationCount = 2

\* C18: a successful analysis that ran fewer than maxIterations iterations
\* returns a confidence of at least confidenceThreshold.
C18_EarlyStopMeetsThreshold ==
    (AnalysisSucceeded /\ analysisOut.data.iterationCount < maxIterations)
        => analysisOut.data.confidence >= confidenceThreshold

\* a successful analysis that stopped after its first iteration
C18_Witness ==
    /\ AnalysisSucceeded
    /\ analysisOut.data.iterationCount = 1
    /\ analysisOut.data.confidence = confidenceThreshold

\* C19: performAnalysis is never called again after a call that resolved
\* with a confidence of at least confidenceThreshold.
C19_StopsAtThreshold ==
    \A j \in 1..Len(calls) :
        (calls[j].how # "reject" /\ calls[j].confidence >= confidenceThreshold)
            => j = Len(calls)

\* the run ended after a second call that reached the threshold
C19_Witness ==
    /\ entry = "analysisAgent"
    /\ pc = "done"
    /\ Len(calls) = 2
    /\ calls[1].confidence < confidenceThreshold
    /\ calls[2].confidence >= confidenceThreshold

\* C20: the findings and the confidence of a successful analysis are those
\* the last call of performAnalysis resolved with.
C20_LastWins ==
    AnalysisSucceeded
        => /\ analysisOut.data.findings = calls[Len(calls)].findings
           /\ analysisOut.data.confidence = calls[Len(calls)].confidence
           /\ analysisOut.data.findings.timelineYears
                  = performAnalysis(Len(calls) - 1).findings.timelineYears

\* a successful analysis whose first call had a higher confidence than its
\* last one
C20_Witness ==
    /\ AnalysisSucceeded
    /\ Len(calls) = maxIterations
    /\ calls[1].confidence > calls[maxIterations].confidence
    /\ analysisOut.data.confidence = calls[maxIterations].confidence

\* whether PolicyAnalysisAgent.execute returned a failure from inside its try
AnalysisFailed ==
    /\ entry = "analysisAgent"
    /\ validateInput(input)
    /\ Has(analysisOut, "success")
    /\ ~ analysisOut.success

\* C21: a successful analysis carries findings that are not null; a run in
\* which no call of performAnalysis resolved with findings ends in a failure
\* that carries an error and no data.
C21_NoSuccessWithoutFindings ==
    /\ AnalysisSucceeded
           => /\ Has(analysisOut.data, "findings")
              /\ ~ IsNullish(analysisOut.data.findings)
    /\ (entry = "analysisAgent" /\ pc = "done" /\ validateInput(input)
          /\ \A j \in 1..Len(calls) : calls[j].how # "ok")
           => /\ AnalysisFailed
              /\ Has(analysisOut, "error")
              /\ ~ Has(analysisOut, "data")

\* three calls resolved without findings, none reached the threshold, and the
\* run ended with the error thrown after the loop
C21_Witness ==
    /\ AnalysisFailed
    /\ Len(calls) = maxIterations
    /\ \A j \in 1..Len(calls) : calls[j].how = "null"
    /\ analysisOut.error = <<"Analysis failed to produce findings">>

\* C22: the confidence of every successful analysis lies in [0, 1], that is
\* in 0..100 hundredths.
C22_ConfidenceInUnitInterval ==
    AnalysisSucceeded
        => /\ analysisOut.data.confidence >= 0
           /\ analysisOut.data.confidence <= 100

\* a successful analysis that returns the built-in confidence of the third
\* iteration, 0.89
C22_Witness ==
    /\ AnalysisSucceeded
    /\ analysisOut.data.iterationCount = maxIterations
    /\ analysisOut.data.confidence = 89

\* whether SynthesisAgent.execute returned a successful output
SynthesisSucceeded ==
    /\ entry = "synthesisAgent"
    /\ Has(synthOut, "success")
    /\ synthOut.success

\* whether SynthesisAgent.execute returned from inside its try or catch block
SynthesisDone ==
    /\ entry = "synthesisAgent"
    /\ pc = "done"
    /\ validateInput(input)

\* the rank of a priority: high before medium before low
PriorityRank(priority) ==
    CASE priority = "high" -> 1
      [] priority = "medium" -> 2
      [] priority = "low" -> 3

\* the positions of ops at which the given capability was called
OpsOf(step) == {j \in 1..Len(ops) : ops[j].step = step}

\* C23: a successful synthesis returns recommendations that are not empty
\* and in which no item of a lower priority stands before one of a higher
\* priority, and a summary that is not empty.
C23_SortedRecommendations ==
    SynthesisSucceeded
        => /\ synthOut.data.recommendations # <<>>
           /\ \A i, j \in 1..Len(synthOut.data.recommendations) :
                  i < j => PriorityRank(synthOut.data.recommendations[i].priority)
                             <= PriorityRank(synthOut.data.recommendations[j].priority)
           /\ synthOut.data.executiveSummary # <<>>

\* C24: a synthesis whose memory write failed, by rejecting or by resolving
\* false, still succeeds, with its recommendations, its summary and
\* memoryUpdated = false.
C24_WriteFailureTolerated ==
    (SynthesisDone
       /\ \E j \in OpsOf("store") : ops[j].how \in {"other", "reject"})
        => /\ synthOut.success
           /\ Has(synthOut, "data")
           /\ synthOut.data.memoryUpdated = FALSE
           /\ synthOut.data.recommendations = synth.recommendations
           /\ synthOut.data.executiveSummary = synth.executiveSummary

\* C25: on every successful synthesis memoryUpdated is the boolean the memory
\* write of that run resolved with.
C25_MemoryUpdatedIsAck ==
    SynthesisSucceeded
        => /\ Cardinality(OpsOf("store")) = 1
           /\ ops[Len(ops)].step = "store"
           /\ synthOut.data.memoryUpdated \in BOOLEAN
           /\ synthOut.data.memoryUpdated = (ops[Len(ops)].how = "ok")

\* a successful synthesis whose write resolved false
C25_Witness ==
    /\ SynthesisSucceeded
    /\ ops[Len(ops)] = [step |-> "store", how |-> "other"]
    /\ synthOut.data.memoryUpdated = FALSE

\* C26: once the retrieval, the generation of the recommendations or the
\* generation of the summary has rejected, no memory write is made, and the
\* synthesis returns success = false with the error and no data.
C26_EarlyFailureFailsStage ==
    (entry = "synthesisAgent"
       /\ \E j \in 1..Len(ops) :
              /\ ops[j].step \in {"retrieve", "generate", "summarise"}
              /\ ops[j].how = "reject")
        => /\ OpsOf("store") = {}
           /\ pc = "done"
           /\ ~ synthOut.success
           /\ synthOut.error \in Causes
           /\ ~ Has(synthOut, "data")

\* the generation of the summary rejected after the two calls before it
\* resolved
C26_Witness ==
    /\ SynthesisDone
    /\ Len(ops) = 3
    /\ ops[3] = [step |-> "summarise", how |-> "reject"]
    /\ ~ synthOut.success

\* C27: a synthesis run makes at most one read of and at most one write to
\* the memory; the read has resolved before the recommendations are
\* generated; the write is made after both the recommendations and the
\* summary were produced.
C27_MemoryReadThenWrite ==
    /\ Cardinality(OpsOf("retrieve")) <= 1
    /\ Cardinality(OpsOf("store")) <= 1
    /\ \A j \in OpsOf("generate") :
           \E i \in OpsOf("retrieve") : i < j /\ ops[i].how # "reject"
    /\ \A j \in OpsOf("store") :
           /\ \E i \in OpsOf("generate") : i < j /\ ops[i].how # "reject"
           /\ \E i \in OpsOf("summarise") : i < j /\ ops[i].how # "reject"

\* the four capability calls of a run, the write last
C27_Witness ==
    /\ entry = "synthesisAgent"
    /\ Len(ops) = 4
    /\ ops[1].step = "retrieve"
    /\ ops[4].step = "store"

\* whether no element occurs twice in the sequence
NoDuplicates(seq) ==
    \A i, j \in 1..Len(seq) : seq[i] = seq[j] => i = j

\* C28: in one run each stage is called at most once, each of the four
\* fetches is started once and settles at most once, every capability of the
\* synthesis is called at most once, and a call that rejected is the last
\* call of its run.
C28_NoRetry ==
    /\ NoDuplicates(invoked)
    /\ \A i \in 1..Len(settled) : settled[i] # "ok" => i = Len(invoked)
    /\ NoDuplicates(completed)
    /\ (entry = "ingestionAgent" /\ validateInput(input))
           => \A k \in KindSet : fetchState[k] # "idle"
    /\ Len(calls) <= maxIterations
    /\ \A j \in 1..Len(calls) :
           /\ calls[j].iteration = j - 1
           /\ calls[j].how = "reject" => j = Len(calls)
    /\ NoDuplicates([j \in 1..Len(ops) |-> ops[j].step])
    /\ \A j \in 1..Len(ops) : ops[j].how = "reject" => j = Len(ops)

\* the supervisor returned after its analysis stage rejected: two stage
\* calls, none repeated
C28_Witness ==
    /\ entry = "supervisor"
    /\ pc = "done"
    /\ invoked = <<"Ingestion", "Analysis">>
    /\ settled = <<"ok", "reject">>

\* C29: every run started through the trigger, the orchestrator or the
\* supervisor reaches its end; the supervisor's result, once returned, and
\* the results at the end of the run never change; the response of the
\* orchestrator is a success or a failure.
C29_RunTerminates ==
    /\ (entry \in {"router", "orchestrator", "supervisor"}) ~> (pc = "done")
    /\ [][supResult # Undefined => supResult' = supResult]_supResult
    /\ [][pc = "done" => /\ pc' = "done"
                         /\ response' = response
                         /\ reply' = reply]_<<pc, response, reply>>
    /\ [](pc = "done" /\ entry = "orchestrator"
            => response.success \in BOOLEAN)

\* a run through the orchestrator ended in its failure state after the
\* synthesis stage was entered
C29_Witness ==
    /\ pc = "done"
    /\ entry = "orchestrator"
    /\ Len(invoked) = 3
    /\ ~ response.success

\* C30: any two calls of the trigger that were accepted and given an
\* execution id, concurrent ones included, have different execution ids.
C30_DistinctExecutionIds ==
    \A i, j \in 1..Len(runs) :
        (i # j /\ runs[i].executionId # Undefined
               /\ runs[j].executionId # Undefined)
            => runs[i].executionId # runs[j].executionId

\* whether a call resolved with the confidence of the built-in capability
BuiltIn(call) ==
    /\ call.how = "ok"
    /\ call.confidence = performAnalysis(call.iteration).confidence

\* whether PolicyAnalysisAgent.execute ran its loop and returned
AnalysisRan ==
    /\ entry = "analysisAgent"
    /\ validateInput(input)
    /\ pc = "done"

\* C33 as stated: every call of performAnalysis after the first is handed the
\* findings the call before it resolved with, and the first call is handed no
\* prior findings.
C33_PriorFindingsPassed ==
    \A j \in 1..Len(calls) :
        /\ j = 1 => ~ Has(calls[j].args, "priorFindings")
        /\ (j > 1 /\ calls[j - 1].how = "ok")
               => /\ Has(calls[j].args, "priorFindings")
                  /\ calls[j].args.priorFindings = calls[j - 1].findings

\* C34: a refinement sleep is only entered after an iteration that stayed
\* below the threshold and was not the last allowed one, so a run that has
\* ended slept exactly once less than it called performAnalysis.
C34_DelaysBetweenIterations ==
    /\ (entry = "analysisAgent" /\ pc = "refining")
           => /\ Len(calls) < maxIterations
              /\ calls[Len(calls)].confidence < confidenceThreshold
              /\ delays = Len(calls) - 1
    /\ AnalysisRan => delays = Len(calls) - 1

\* a run that stopped at the threshold in its second iteration and slept once
C34_Witness ==
    /\ AnalysisRan
    /\ AnalysisSucceeded
    /\ Len(calls) = 2
    /\ calls[2].confidence >= confidenceThreshold
    /\ delays = 1

\* the iteration indices over which the built-in confidence is compared
MaxIndex == 4

\* C35: the confidence of the built-in capability never falls as the
\* iteration index grows, so of two built-in results of one run the later one
\* is not lower than the earlier one.
C35_BuiltInConfidenceMonotone ==
    /\ \A a \in 0..MaxIndex : \A b \in a..MaxIndex :
           performAnalysis(a).confidence <= performAnalysis(b).confidence
    /\ \A j \in 1..Len(calls) : \A k \in j..Len(calls) :
           (BuiltIn(calls[j]) /\ BuiltIn(calls[k]))
               => calls[j].confidence <= calls[k].confidence

\* a run whose first and second call resolved with the built-in confidence,
\* the second one higher
C35_Witness ==
    /\ entry = "analysisAgent"
    /\ Len(calls) >= 2
    /\ BuiltIn(calls[1])
    /\ BuiltIn(calls[2])
    /\ calls[1].confidence < calls[2].confidence

\* C36: a run in which every call resolved with the result of the built-in
\* capability makes exactly three calls with the confidences 0.65, 0.77 and
\* 0.89, does not stop before the third, and returns iterationCount 3 with a
\* confidence of at least the threshold.
C36_DefaultRunTakesThreeIterations ==
    /\ (entry = "analysisAgent" /\ \A j \in 1..Len(calls) : BuiltIn(calls[j]))
           => /\ \A j \in 1..Len(calls) :
                     calls[j].confidence = 65 + 12 * (j - 1)
              /\ (pc = "analysed" => Len(calls) = maxIterations)
    /\ (AnalysisRan /\ \A j \in 1..Len(calls) : BuiltIn(calls[j]))
           => /\ Len(calls) = 3
              /\ AnalysisSucceeded
              /\ analysisOut.data.iterationCount = 3
              /\ analysisOut.data.confidence >= confidenceThreshold

\* a run of three built-in calls that slept twice and has returned
C36_Witness ==
    /\ AnalysisRan
    /\ Len(calls) = 3
    /\ \A j \in 1..3 : BuiltIn(calls[j])
    /\ calls[1].confidence = 65
    /\ calls[2].confidence = 77
    /\ delays = 2

\* C37: a call of performAnalysis that rejects is the last call of its run,
\* and the run ends at once in a failure that carries the error of the
\* rejection and no data, whatever the calls before it resolved with.
C37_RejectionEndsRun ==
    entry = "analysisAgent"
        => \A j \in 1..Len(calls) :
               calls[j].how = "reject"
                   => /\ j = Len(calls)
                      /\ pc = "done"
                      /\ AnalysisFailed
                      /\ analysisOut.error = calls[j].error
                      /\ ~ Has(analysisOut, "data")

\* the first call resolved with findings below the threshold and the second
\* one rejected with a timeout
C37_Witness ==
    /\ AnalysisFailed
    /\ Len(calls) = 2
    /\ calls[1].how = "ok"
    /\ calls[1].confidence < confidenceThreshold
    /\ calls[2].how = "reject"
    /\ analysisOut.error = <<"timeout">>

\* the trigger ended after the orchestrator reported success = false
WorkflowReportedFailure ==
    /\ entry = "router"
    /\ pc = "done"
    /\ Has(response, "success")
    /\ ~ response.success

\* rows of agent_executions with the status failed
FailedRows ==
    {i \in 1..Len(agentExecutions) : agentExecutions[i].status = "failed"}

C39_SuccessSurvivesStoreFailure ==
    (entry = "router" /\ pc = "done" /\ Has(response, "success")
     /\ response.success /\ AllStagesSucceeded(response.result))
        => reply.kind = "ok"

\* C32: callAnalysisAgent is handed the data of the ingestion output of the
\* run and callSynthesisAgent the data of its analysis output, each of them
\* the output of a stage that succeeded; callIngestionAgent is handed no data.
C32_StageGetsPredecessorData ==
    /\ Len(passed) = Len(invoked)
    /\ \A j \in 1..Len(invoked) :
           /\ invoked[j] = "Ingestion" => passed[j] = Undefined
           /\ invoked[j] = "Analysis"
                  => /\ ingestionOutput.success
                     /\ passed[j] = ingestionOutput.data
                     /\ passed[j] = callIngestionAgent(SupInput).data
           /\ invoked[j] = "Synthesis"
                  => /\ analysisOutput.success
                     /\ passed[j] = analysisOutput.data
                     /\ passed[j] # ingestionOutput.data

\* the synthesis stage was called with the findings of the analysis
C32_Witness ==
    /\ Len(invoked) = 3
    /\ invoked[3] = "Synthesis"
    /\ Has(passed[3], "findings")
    /\ passed[3].confidence = 82
    /\ Has(passed[2], "sources")

\* a call of runACPA executed alone: its stage calls settle one after the
\* other as they did, with no other call in between
RECURSIVE RunAlone(_, _)
RunAlone(task, settlements) ==
    IF settlements = <<>> THEN task
    ELSE RunAlone(SettleStage(task, SupervisorInputOf(task.request),
                              Head(settlements).how,
                              Head(settlements).cause),
                  Tail(settlements))

Alone(task) == RunAlone(NewTask(task.request, task.rnd), task.settled)

============================================================================
